---- MODULE Spec2Model ----
(***************************************************************************)
(* Attribute conversion, the three attribute maps and the attribute-map    *)
(* hash of sdk/common (attribute_utils.h, attributemap_hash.h).            *)
(*                                                                         *)
(* Text is a sequence of byte codes (0..255), so that formatting and       *)
(* hashing act on the bytes the program acts on.  A 64-bit unsigned word   *)
(* (uint64_t, and size_t on the LP64 targets the hash is specified for) is *)
(* a tuple of 8 bytes, least significant first, with wrap-around           *)
(* arithmetic carried out limb by limb.                                    *)
(***************************************************************************)
EXTENDS Integers, Sequences, FiniteSets, TLC

(***************************************************************************)
(* Bounds of the model.                                                    *)
(***************************************************************************)
\* longest byte string handed to Fnv1aHash as an input of its own
MaxData == 3
\* longest argument list folded through GetHash as an input of its own
MaxArgs == 3
\* longest enumerable source / literal list / insertion sequence
MaxPairs == 2
\* longest span handed to a converter as an input of its own
MaxSpan == 2

(***************************************************************************)
(* uint64_t arithmetic.                                                    *)
(***************************************************************************)
Pow2(n) == 2^n

Bit(a, i) == (a \div Pow2(i)) % 2

\* a ^ b on one byte
XorByte(a, b) ==
  LET x(i) == ((Bit(a, i) + Bit(b, i)) % 2) * Pow2(i)
  IN  x(0) + x(1) + x(2) + x(3) + x(4) + x(5) + x(6) + x(7)

\* the word of a small non-negative integer (below 2^24)
Word(n) == <<n % 256, (n \div 256) % 256, (n \div 65536) % 256, 0, 0, 0, 0, 0>>

\* x ^ y
Xor64(x, y) ==
  <<XorByte(x[1], y[1]), XorByte(x[2], y[2]), XorByte(x[3], y[3]),
    XorByte(x[4], y[4]), XorByte(x[5], y[5]), XorByte(x[6], y[6]),
    XorByte(x[7], y[7]), XorByte(x[8], y[8])>>

\* x + y modulo 2^64: s[i] is limb i of the sum with the carry of limb i - 1
Add64(x, y) ==
  LET s1 == x[1] + y[1]
      s2 == x[2] + y[2] + (s1 \div 256)
      s3 == x[3] + y[3] + (s2 \div 256)
      s4 == x[4] + y[4] + (s3 \div 256)
      s5 == x[5] + y[5] + (s4 \div 256)
      s6 == x[6] + y[6] + (s5 \div 256)
      s7 == x[7] + y[7] + (s6 \div 256)
      s8 == x[8] + y[8] + (s7 \div 256)
  IN  <<s1 % 256, s2 % 256, s3 % 256, s4 % 256, s5 % 256, s6 % 256, s7 % 256, s8 % 256>>

\* x * y modulo 2^64: column k sums the limb products x[i] * y[k + 1 - i] and the
\* carry of column k - 1
Mul64(x, y) ==
  LET c1 == x[1] * y[1]
      c2 == x[1] * y[2] + x[2] * y[1]
            + (c1 \div 256)
      c3 == x[1] * y[3] + x[2] * y[2] + x[3] * y[1]
            + (c2 \div 256)
      c4 == x[1] * y[4] + x[2] * y[3] + x[3] * y[2] + x[4] * y[1]
            + (c3 \div 256)
      c5 == x[1] * y[5] + x[2] * y[4] + x[3] * y[3] + x[4] * y[2] + x[5] * y[1]
            + (c4 \div 256)
      c6 == x[1] * y[6] + x[2] * y[5] + x[3] * y[4] + x[4] * y[3] + x[5] * y[2] + x[6] * y[1]
            + (c5 \div 256)
      c7 == x[1] * y[7] + x[2] * y[6] + x[3] * y[5] + x[4] * y[4] + x[5] * y[3] + x[6] * y[2] + x[7] * y[1]
            + (c6 \div 256)
      c8 == x[1] * y[8] + x[2] * y[7] + x[3] * y[6] + x[4] * y[5] + x[5] * y[4] + x[6] * y[3] + x[7] * y[2] + x[8] * y[1]
            + (c7 \div 256)
  IN  <<c1 % 256, c2 % 256, c3 % 256, c4 % 256, c5 % 256, c6 % 256, c7 % 256, c8 % 256>>

\* x << n modulo 2^64, for 0 < n < 8
Shl64(x, n) ==
  LET lo(i) == (x[i] * Pow2(n)) % 256
      hi(i) == x[i] \div Pow2(8 - n)
  IN  <<lo(1), lo(2) + hi(1), lo(3) + hi(2), lo(4) + hi(3),
        lo(5) + hi(4), lo(6) + hi(5), lo(7) + hi(6), lo(8) + hi(7)>>

\* x >> n, for 0 < n < 8
Shr64(x, n) ==
  LET hi(i) == x[i] \div Pow2(n)
      lo(i) == (x[i] % Pow2(n)) * Pow2(8 - n)
  IN  <<hi(1) + lo(2), hi(2) + lo(3), hi(3) + lo(4), hi(4) + lo(5),
        hi(5) + lo(6), hi(6) + lo(7), hi(7) + lo(8), hi(8)>>

\* the values of uint64_t
Uint64 == [1..8 -> 0..255]

\* one digit d appended to the literal read so far
LiteralStep(acc, base, d) ==
  IF acc \in Uint64 THEN Add64(Mul64(acc, Word(base)), Word(d)) ELSE acc

RECURSIVE LiteralPrefix(_, _, _)
\* the word written as the first n digits of ds in the given base
LiteralPrefix(ds, base, n) ==
  IF n = 0 THEN Word(0) ELSE LiteralStep(LiteralPrefix(ds, base, n - 1), base, ds[n])

\* the word written as the digit string ds in the given base
Literal(ds, base) == LiteralPrefix(ds, base, Len(ds))

\* constexpr uint64_t FNV_OFFSET_BASIS = 14695981039346656037U
FNV_OFFSET_BASIS ==
  Literal(<<1, 4, 6, 9, 5, 9, 8, 1, 0, 3, 9, 3, 4, 6, 6, 5, 6, 0, 3, 7>>, 10)

\* constexpr uint64_t FNV_64_PRIME = 1099511628211U
FNV_64_PRIME == Literal(<<1, 0, 9, 9, 5, 1, 1, 6, 2, 8, 2, 1, 1>>, 10)

\* the literal 0x9e3779b9 of GetHash, widened to size_t
GoldenRatio == Literal(<<9, 14, 3, 7, 7, 9, 11, 9>>, 16)

\* as UChar, but the char is widened with its sign
SignedChar(c) ==
  IF c < 0 THEN <<(c + 256) % 256, 255, 255, 255, 255, 255, 255, 255>> ELSE Word(c)

(***************************************************************************)
(* Fnv1aHash.  A char is -128..127 where char is signed and 0..255 where   *)
(* it is not; the cast to unsigned char maps both onto 0..255.             *)
(***************************************************************************)
\* static_cast<unsigned char>(c), widened to uint64_t
UChar(c) == Word(c % 256)

\* the loop body: hash ^= static_cast<unsigned char>(data[i]); hash *= FNV_64_PRIME
Fnv1aStep(hash, c) ==
  IF hash \in Uint64 THEN Mul64(Xor64(hash, UChar(c)), FNV_64_PRIME) ELSE hash

RECURSIVE Fnv1aLoop(_, _)
\* the accumulator after the loop body has run for the first n bytes
Fnv1aLoop(data, n) ==
  IF n = 0 THEN FNV_OFFSET_BASIS ELSE Fnv1aStep(Fnv1aLoop(data, n - 1), data[n])

\* Fnv1aHash(const char *data, size_t length) and Fnv1aHash(const std::string &)
Fnv1aHash(data) == Fnv1aLoop(data, Len(data))

\* as GetHash, but without the shifted seed
GetHashUnshifted(seed, arg) ==
  IF seed \in Uint64 THEN Xor64(seed, Add64(Fnv1aHash(arg), GoldenRatio)) ELSE seed

\* seed ^= Fnv1aHash(arg) + 0x9e3779b9 + (seed << 6) + (seed >> 2), for an
\* argument whose bytes are arg
GetHash(seed, arg) ==
  IF seed \in Uint64
  THEN Xor64(seed, Add64(Add64(Add64(Fnv1aHash(arg), GoldenRatio), Shl64(seed, 6)),
                         Shr64(seed, 2)))
  ELSE seed

(***************************************************************************)
(* Attribute values.                                                       *)
(*                                                                         *)
(* A borrowed value (opentelemetry::common::AttributeValue) is the pair    *)
(* <<kind, val>>: kind names the alternative the converters overload on,   *)
(* val is a BOOLEAN, an integer, text (a byte sequence) or a sequence of   *)
(* those.  A double is modelled on the multiples of 0.5 only, val being    *)
(* twice the value (3 stands for 1.5).                                     *)
(* An owned value (OwnedAttributeValue) is the pair <<type, val>>: type is *)
(* the OwnedAttributeType of the active alternative.                       *)
(***************************************************************************)
Kind(v) == v[1]

Val(v) == v[2]

\* the active alternative of an owned value (variant::index)
TypeOf(o) == o[1]

\* the value an owned value holds
Held(o) == o[2]

\* an OwnedAttributeValue holding val in the alternative of the given type
Owned(type, val) == <<type, val>>

ScalarKinds == {"bool", "int32_t", "uint32_t", "int64_t", "uint64_t", "double"}

TextKinds == {"string_view", "std::string", "const char *"}

SpanKinds ==
  {"span<const uint8_t>", "span<const bool>", "span<const int32_t>",
   "span<const uint32_t>", "span<const int64_t>", "span<const uint64_t>",
   "span<const double>", "span<const string_view>"}

\* the element type U of a span<const U>
ElementKind(kind) ==
  CASE kind = "span<const uint8_t>" -> "uint8_t"
    [] kind = "span<const bool>" -> "bool"
    [] kind = "span<const int32_t>" -> "int32_t"
    [] kind = "span<const uint32_t>" -> "uint32_t"
    [] kind = "span<const int64_t>" -> "int64_t"
    [] kind = "span<const uint64_t>" -> "uint64_t"
    [] kind = "span<const double>" -> "double"
    [] kind = "span<const string_view>" -> "string_view"

\* the OwnedAttributeType (variant index) of the alternative holding a T
ScalarType(T) ==
  CASE T = "bool" -> "kTypeBool"
    [] T = "int32_t" -> "kTypeInt"
    [] T = "uint32_t" -> "kTypeUInt"
    [] T = "int64_t" -> "kTypeInt64"
    [] T = "double" -> "kTypeDouble"
    [] T = "std::string" -> "kTypeString"
    [] T = "uint64_t" -> "kTypeUInt64"

\* the OwnedAttributeType (variant index) of the alternative holding a std::vector<T>
VectorType(T) ==
  CASE T = "bool" -> "kTypeSpanBool"
    [] T = "int32_t" -> "kTypeSpanInt"
    [] T = "uint32_t" -> "kTypeSpanUInt"
    [] T = "int64_t" -> "kTypeSpanInt64"
    [] T = "double" -> "kTypeSpanDouble"
    [] T = "std::string" -> "kTypeSpanString"
    [] T = "uint64_t" -> "kTypeSpanUInt64"
    [] T = "uint8_t" -> "kTypeSpanByte"

\* the element type T of the std::vector<T> alternative of the given type
VectorElement(type) ==
  CASE type = "kTypeSpanBool" -> "bool"
    [] type = "kTypeSpanInt" -> "int32_t"
    [] type = "kTypeSpanUInt" -> "uint32_t"
    [] type = "kTypeSpanInt64" -> "int64_t"
    [] type = "kTypeSpanDouble" -> "double"
    [] type = "kTypeSpanString" -> "std::string"
    [] type = "kTypeSpanUInt64" -> "uint64_t"
    [] type = "kTypeSpanByte" -> "uint8_t"

VectorTypes ==
  {"kTypeSpanBool", "kTypeSpanInt", "kTypeSpanUInt", "kTypeSpanInt64",
   "kTypeSpanDouble", "kTypeSpanString", "kTypeSpanUInt64", "kTypeSpanByte"}

(***************************************************************************)
(* AttributeConverter.                                                     *)
(***************************************************************************)
RECURSIVE RangeCopyShort(_, _, _)
\* as RangeCopy, but stopping one element early
RangeCopyShort(vals, first, last) ==
  IF first >= last - 1 THEN <<>>
  ELSE <<vals[first]>> \o RangeCopyShort(vals, first + 1, last)

RECURSIVE RangeCopy(_, _, _)
\* std::vector<T>(first, last): the elements of vals from first up to, not
\* including, last, each copied into a T
RangeCopy(vals, first, last) ==
  IF first >= last THEN <<>>
  ELSE <<vals[first]>> \o RangeCopy(vals, first + 1, last)

\* AttributeConverter::convertSpan<T>(vals)
ConvertSpan(T, vals) ==
  Owned(VectorType(T), RangeCopy(vals, 1, Len(vals) + 1))

\* AttributeConverter::operator(), by overload
AttributeConverter(v) ==
  CASE Kind(v) = "bool" -> Owned(ScalarType("bool"), Val(v))
    [] Kind(v) = "int32_t" -> Owned(ScalarType("int32_t"), Val(v))
    [] Kind(v) = "uint32_t" -> Owned(ScalarType("uint32_t"), Val(v))
    [] Kind(v) = "int64_t" -> Owned(ScalarType("int64_t"), Val(v))
    [] Kind(v) = "uint64_t" -> Owned(ScalarType("uint64_t"), Val(v))
    [] Kind(v) = "double" -> Owned(ScalarType("double"), Val(v))
    [] Kind(v) = "string_view" -> Owned(ScalarType("std::string"), Val(v))
    [] Kind(v) = "std::string" -> Owned(ScalarType("std::string"), Val(v))
    [] Kind(v) = "const char *" -> Owned(ScalarType("std::string"), Val(v))
    [] Kind(v) = "span<const uint8_t>" -> ConvertSpan("uint8_t", Val(v))
    [] Kind(v) = "span<const bool>" -> ConvertSpan("bool", Val(v))
    [] Kind(v) = "span<const int32_t>" -> ConvertSpan("int32_t", Val(v))
    [] Kind(v) = "span<const uint32_t>" -> ConvertSpan("uint32_t", Val(v))
    [] Kind(v) = "span<const int64_t>" -> ConvertSpan("int64_t", Val(v))
    [] Kind(v) = "span<const uint64_t>" -> ConvertSpan("uint64_t", Val(v))
    [] Kind(v) = "span<const double>" -> ConvertSpan("double", Val(v))
    [] Kind(v) = "span<const string_view>" -> ConvertSpan("std::string", Val(v))

(***************************************************************************)
(* Text rendering: std::to_string and operator<< on a default ostream.     *)
(***************************************************************************)
RECURSIVE Digits(_)
\* the decimal digits of n >= 0
Digits(n) == IF n < 10 THEN <<48 + n>> ELSE Digits(n \div 10) \o <<48 + (n % 10)>>

\* std::to_string and operator<< of an integer: "%d" / "%u" and the like
IntText(n) == IF n < 0 THEN <<45>> \o Digits(-n) ELSE Digits(n)

\* std::to_string(double), "%f": six digits after the point
DoubleToString(h) ==
  LET a == IF h < 0 THEN -h ELSE h
  IN  (IF h < 0 THEN <<45>> ELSE <<>>) \o Digits(a \div 2) \o <<46>>
      \o (IF a % 2 = 1 THEN <<53>> ELSE <<48>>) \o <<48, 48, 48, 48, 48>>

\* operator<<(double) with the default precision 6, "%g": no trailing zeros
DoubleStream(h) ==
  LET a == IF h < 0 THEN -h ELSE h
  IN  (IF h < 0 THEN <<45>> ELSE <<>>) \o Digits(a \div 2)
      \o (IF a % 2 = 1 THEN <<46, 53>> ELSE <<>>)

(***************************************************************************)
(* StringAttributeConverter.                                               *)
(***************************************************************************)
\* StringAttributeConverter::operator()(val) for a val of type T; a uint8_t
\* promotes to int and takes the int32_t overload
StringOfScalar(T, val) ==
  CASE T = "bool" -> IF val THEN <<116, 114, 117, 101>> ELSE <<102, 97, 108, 115, 101>>
    [] T \in {"int32_t", "uint32_t", "int64_t", "uint64_t", "uint8_t"} -> IntText(val)
    [] T = "double" -> DoubleToString(val)
    [] T \in TextKinds -> val

RECURSIVE StringJoinLoop(_, _, _)
\* as StringConvertSpanLoop, but the space only between elements
StringJoinLoop(U, vals, n) ==
  IF n = 0 THEN <<>>
  ELSE IF n = 1 THEN StringOfScalar(U, vals[1])
  ELSE StringJoinLoop(U, vals, n - 1) \o <<32>> \o StringOfScalar(U, vals[n])

RECURSIVE StringConvertSpanLoop(_, _, _)
\* the contents of oss after the loop body has run for the first n elements
StringConvertSpanLoop(U, vals, n) ==
  IF n = 0 THEN <<>>
  ELSE StringConvertSpanLoop(U, vals, n - 1) \o StringOfScalar(U, vals[n]) \o <<32>>

\* StringAttributeConverter::convertSpan(vals) over elements of type U
StringConvertSpan(U, vals) == StringConvertSpanLoop(U, vals, Len(vals))

\* StringAttributeConverter::operator(), by overload
StringAttributeConverter(v) ==
  IF Kind(v) \in SpanKinds THEN StringConvertSpan(ElementKind(Kind(v)), Val(v))
  ELSE StringOfScalar(Kind(v), Val(v))

(***************************************************************************)
(* The three attribute maps.  A map is the sequence of its entries         *)
(* <<first, second>> in iteration order: key order for std::map, an order  *)
(* the implementation chooses for std::unordered_map.  A pair a source     *)
(* advertises is <<key, value>>, the value borrowed.                       *)
(***************************************************************************)
First(kv) == kv[1]

Second(kv) == kv[2]

Key(pair) == pair[1]

Value(pair) == pair[2]

StringAttributeMap == "StringAttributeMap"
AttributeMap == "AttributeMap"
OrderedAttributeMap == "OrderedAttributeMap"

Variants == {StringAttributeMap, AttributeMap, OrderedAttributeMap}

RECURSIVE StrLessFrom(_, _, _)
\* a < b on std::string, the bytes before position i being equal
StrLessFrom(a, b, i) ==
  IF i > Len(b) THEN FALSE
  ELSE IF i > Len(a) THEN TRUE
  ELSE IF a[i] # b[i] THEN a[i] < b[i]
  ELSE StrLessFrom(a, b, i + 1)

\* std::less<std::string>: lexicographic on unsigned bytes
StrLess(a, b) == StrLessFrom(a, b, 1)

MapKeys(m) == {First(m[i]) : i \in 1..Len(m)}

\* the position of key in m, 0 when absent
Find(m, key) ==
  IF key \in MapKeys(m) THEN CHOOSE i \in 1..Len(m) : First(m[i]) = key ELSE 0

\* the value stored under a key that is present
At(m, key) == Second(m[Find(m, key)])

\* the orders in which a container may enumerate the given entries
Orders(entries) ==
  {s \in [1..Cardinality(entries) -> entries] :
     \A i, j \in 1..Cardinality(entries) : s[i] = s[j] => i = j}

\* as UnorderedAssign, but emplace(key, value): a present key keeps its value
UnorderedEmplace(m, key, value) ==
  IF key \in MapKeys(m)
  THEN {m}
  ELSE Orders({m[i] : i \in 1..Len(m)} \cup {<<key, value>>})

\* std::unordered_map: (*this)[key] = value.  A present key keeps its place;
\* inserting a key may rehash, after which the iteration order is any order
UnorderedAssign(m, key, value) ==
  IF key \in MapKeys(m)
  THEN {[m EXCEPT ![Find(m, key)] = <<key, value>>]}
  ELSE Orders({m[i] : i \in 1..Len(m)} \cup {<<key, value>>})

\* as OrderedAssign, but a new key goes to the end whatever the keys before it
AppendAssign(m, key, value) ==
  IF key \in MapKeys(m)
  THEN [m EXCEPT ![Find(m, key)] = <<key, value>>]
  ELSE Append(m, <<key, value>>)

\* std::map: (*this)[key] = value.  A present key keeps its place; a new key
\* goes after the keys less than it
OrderedAssign(m, key, value) ==
  IF key \in MapKeys(m)
  THEN [m EXCEPT ![Find(m, key)] = <<key, value>>]
  ELSE LET n == Cardinality({i \in 1..Len(m) : StrLess(First(m[i]), key)})
       IN  SubSeq(m, 1, n) \o <<<<key, value>>>>
           \o SubSeq(m, n + 1, Len(m))

\* StringAttributeMap::SetAttribute: the maps it may leave
StringSetAttribute(m, key, value) ==
  UnorderedAssign(m, key, StringAttributeConverter(value))

\* AttributeMap::SetAttribute: the maps it may leave
AttributeSetAttribute(m, key, value) ==
  UnorderedAssign(m, key, AttributeConverter(value))

\* as OrderedSetAttribute, but a new key takes the node of the first greater key
OrderedSetAttributeOver(m, key, value) ==
  LET n == Cardinality({i \in 1..Len(m) : StrLess(First(m[i]), key)})
  IN  IF key \notin MapKeys(m) /\ n < Len(m)
      THEN {[m EXCEPT ![n + 1] = <<key, AttributeConverter(value)>>]}
      ELSE {OrderedAssign(m, key, AttributeConverter(value))}

\* OrderedAttributeMap::SetAttribute: the map it leaves
OrderedSetAttribute(m, key, value) ==
  {OrderedAssign(m, key, AttributeConverter(value))}

\* SetAttribute of the given class
SetAttributeOn(variant, m, key, value) ==
  CASE variant = StringAttributeMap -> StringSetAttribute(m, key, value)
    [] variant = AttributeMap -> AttributeSetAttribute(m, key, value)
    [] variant = OrderedAttributeMap -> OrderedSetAttribute(m, key, value)

RECURSIVE Populate(_, _, _)
\* the constructors' loop: SetAttribute for each of the first n pairs of the
\* source (ForEachKeyValue, or the initializer list), on a map built empty
Populate(variant, pairs, n) ==
  IF n = 0 THEN {<<>>}
  ELSE UNION {SetAttributeOn(variant, m, Key(pairs[n]), Value(pairs[n])) :
                m \in Populate(variant, pairs, n - 1)}

(***************************************************************************)
(* GetHashForAttributeMap.                                                 *)
(***************************************************************************)
\* the text operator<< writes for a value of type T (Fnv1aHash<T>): no
\* boolalpha, a uint8_t as the character it is
StreamText(T, val) ==
  CASE T = "bool" -> IF val THEN <<49>> ELSE <<48>>
    [] T \in {"int32_t", "uint32_t", "int64_t", "uint64_t"} -> IntText(val)
    [] T = "uint8_t" -> <<val>>
    [] T = "double" -> DoubleStream(val)
    [] T = "std::string" -> val

RECURSIVE StreamTexts(_, _, _)
\* the texts of the first n elements of arg, one after the other
StreamTexts(T, arg, n) ==
  IF n = 0 THEN <<>> ELSE StreamTexts(T, arg, n - 1) \o StreamText(T, arg[n])

\* as GetHashVector, but the vector is hashed as one value
GetHashVectorWhole(seed, T, arg, n) == GetHash(seed, StreamTexts(T, arg, n))

RECURSIVE GetHashVector(_, _, _, _)
\* GetHash(seed, const std::vector<T> &arg): GetHash<T> for the first n elements
GetHashVector(seed, T, arg, n) ==
  IF n = 0 THEN seed
  ELSE GetHash(GetHashVector(seed, T, arg, n - 1), StreamText(T, arg[n]))

\* nostd::visit(GetHashForAttributeValueVisitor(seed), v)
GetHashForAttributeValueVisitor(seed, v) ==
  CASE TypeOf(v) \in VectorTypes ->
         GetHashVector(seed, VectorElement(TypeOf(v)), Held(v), Len(Held(v)))
    [] TypeOf(v) = "kTypeBool" -> GetHash(seed, StreamText("bool", Held(v)))
    [] TypeOf(v) = "kTypeInt" -> GetHash(seed, StreamText("int32_t", Held(v)))
    [] TypeOf(v) = "kTypeUInt" -> GetHash(seed, StreamText("uint32_t", Held(v)))
    [] TypeOf(v) = "kTypeInt64" -> GetHash(seed, StreamText("int64_t", Held(v)))
    [] TypeOf(v) = "kTypeUInt64" -> GetHash(seed, StreamText("uint64_t", Held(v)))
    [] TypeOf(v) = "kTypeDouble" -> GetHash(seed, StreamText("double", Held(v)))
    [] TypeOf(v) = "kTypeString" -> GetHash(seed, Held(v))

\* the loop body of the map-level hash.  The build decides the class hashed:
\* StringAttributeMap by default (the value is text), AttributeMap under
\* ENABLE_GENERIC_ATTRIBUTES and OrderedAttributeMap with
\* ENABLE_ATTRIBUTES_PROCESSOR as well (the value is visited)
HashEntry(variant, seed, kv) ==
  IF variant = StringAttributeMap
  THEN GetHash(GetHash(seed, First(kv)), Second(kv))
  ELSE GetHashForAttributeValueVisitor(GetHash(seed, First(kv)), Second(kv))

RECURSIVE HashEntries(_, _, _)
\* the seed after the loop has visited the first n entries
HashEntries(variant, m, n) ==
  IF n = 0 THEN Word(0)
  ELSE HashEntry(variant, HashEntries(variant, m, n - 1), m[n])

\* GetHashForAttributeMap(attribute_map)
GetHashForAttributeMap(variant, m) == HashEntries(variant, m, Len(m))

\* the callback of the filtered hash for one pair
FilteredEntry(seed, pair, accept) ==
  IF Key(pair) \notin accept THEN seed
  ELSE GetHashForAttributeValueVisitor(GetHash(seed, Key(pair)),
                                       AttributeConverter(Value(pair)))

RECURSIVE FilteredEntries(_, _, _)
\* the seed after ForEachKeyValue has advertised the first n pairs
FilteredEntries(attributes, accept, n) ==
  IF n = 0 THEN Word(0)
  ELSE FilteredEntry(FilteredEntries(attributes, accept, n - 1), attributes[n], accept)

\* GetHashForAttributeMap(attributes, is_key_present_callback), the callback
\* accepting the keys in accept
GetHashForAttributeMapFiltered(attributes, accept) ==
  FilteredEntries(attributes, accept, Len(attributes))

(***************************************************************************)
(* Inputs.                                                                 *)
(***************************************************************************)
\* "a", "b", "ab"
Keys == {<<97>>, <<98>>, <<97, 98>>}

\* true, 1, "1", [1, 2]
AttrValues ==
  {<<"bool", TRUE>>, <<"int32_t", 1>>, <<"string_view", <<49>>>>,
   <<"span<const int32_t>", <<1, 2>>>>}

\* the std::string values of a StringAttributeMap initializer list: "1", ""
ListTexts == {<<"std::string", <<49>>>>, <<"std::string", <<>>>>}

\* the sequences of at most MaxPairs pairs over the given keys and values
PairLists(keys, values) ==
  UNION {[1..n -> {<<k, v>> : k \in keys, v \in values}] : n \in 0..MaxPairs}

\* what a KeyValueIterable may advertise
Sources == PairLists(Keys, AttrValues)

(***************************************************************************)
(* One attribute map object: its class, its entries, and what was asked of *)
(* it.  written records, for each key, the value of the latest             *)
(* SetAttribute call on the object; op is the latest operation, its name   *)
(* first and its arguments after it (for SetAttribute also whether the key *)
(* was present and the entry count before the call); fault says            *)
(* construction dereferenced a null source; hash holds the result of       *)
(* GetHashForAttributeMap on the entries as they are (<<>> when none).     *)
(* call and ret are the latest call of a free function or converter (its   *)
(* name first, its arguments after it) and what it returned.               *)
(***************************************************************************)
VARIABLES variant, attributes, written, op, fault, hash, call, ret

vars == <<variant, attributes, written, op, fault, hash, call, ret>>

Init ==
  /\ variant = "none"
  /\ attributes = <<>>
  /\ written = <<>>
  /\ op = <<"none">>
  /\ fault = FALSE
  /\ hash = <<>>
  /\ call = <<"none">>
  /\ ret = <<>>

\* written after one more SetAttribute(key, value)
Record(w, key, value) ==
  [k \in (DOMAIN w) \cup {key} |-> IF k = key THEN value ELSE w[k]]

RECURSIVE WrittenBy(_, _)
\* written after SetAttribute for each of the first n pairs
WrittenBy(pairs, n) ==
  IF n = 0 THEN <<>>
  ELSE Record(WrittenBy(pairs, n - 1), Key(pairs[n]), Value(pairs[n]))

\* a constructor that populates a map of class v from pairs
Build(v, pairs, o) ==
  /\ variant = "none"
  /\ variant' = v
  /\ attributes' \in Populate(v, pairs, Len(pairs))
  /\ written' = WrittenBy(pairs, Len(pairs))
  /\ op' = o
  /\ fault' = FALSE
  /\ hash' = <<>>
  /\ UNCHANGED <<call, ret>>

\* the default constructors
Construct(v) == Build(v, <<>>, <<"Construct">>)

\* the constructors from const KeyValueIterable &
ConstructFromIterable(v, attrs) ==
  Build(v, attrs, <<"ConstructFromIterable">>)

\* StringAttributeMap(const KeyValueIterable *) and
\* AttributeMap(const KeyValueIterable *): a null source is skipped
ConstructFromPointer(v, isNull, attrs) ==
  /\ v \in {StringAttributeMap, AttributeMap}
  /\ Build(v, IF isNull THEN <<>> ELSE attrs,
           <<"ConstructFromPointer", isNull>>)

\* OrderedAttributeMap has no constructor from a pointer: a source held by
\* pointer reaches it as OrderedAttributeMap(*attributes), the constructor from
\* a reference, which calls attributes.ForEachKeyValue unguarded.  With a null
\* source that call is undefined: the program faults, or enumerates whatever
\* it finds (garbage)
OrderedConstructFromPointer(isNull, attrs, faults, garbage) ==
  IF isNull /\ faults
  THEN /\ variant = "none"
       /\ variant' = OrderedAttributeMap
       /\ attributes' = <<>>
       /\ written' = <<>>
       /\ op' = <<"ConstructFromPointer", TRUE>>
       /\ fault' = TRUE
       /\ hash' = <<>>
       /\ UNCHANGED <<call, ret>>
  ELSE Build(OrderedAttributeMap, IF isNull THEN garbage ELSE attrs,
             <<"ConstructFromPointer", isNull>>)

\* the constructors from an initializer list
ConstructFromList(v, list) == Build(v, list, <<"ConstructFromList">>)

\* SetAttribute(key, value) on the object
SetAttribute(key, value) ==
  /\ variant \in Variants
  /\ ~fault
  /\ attributes' \in SetAttributeOn(variant, attributes, key, value)
  /\ written' = Record(written, key, value)
  /\ op' = <<"SetAttribute", key, value, key \in MapKeys(attributes), Len(attributes)>>
  /\ hash' = <<>>
  /\ UNCHANGED <<variant, fault, call, ret>>

\* GetHashForAttributeMap(attribute_map) on the object, in the build whose
\* map-level hash takes its class
Hash ==
  /\ variant \in Variants
  /\ ~fault
  /\ hash = <<>>
  /\ hash' = <<GetHashForAttributeMap(variant, attributes)>>
  /\ UNCHANGED <<variant, attributes, written, op, fault, call, ret>>

\* the object goes out of scope (a faulted program is restarted)
Destroy ==
  /\ variant # "none"
  /\ variant' = "none"
  /\ attributes' = <<>>
  /\ written' = <<>>
  /\ op' = <<"none">>
  /\ fault' = FALSE
  /\ hash' = <<>>
  /\ UNCHANGED <<call, ret>>

\* an object is constructed where there is none, and used where there is one
Next ==
  \/ variant = "none" /\ \E v \in Variants : Construct(v)
  \/ variant = "none" /\ \E v \in Variants, attrs \in Sources :
                           ConstructFromIterable(v, attrs)
  \/ variant = "none" /\ \E v \in Variants, attrs \in Sources :
                           ConstructFromPointer(v, FALSE, attrs)
  \/ variant = "none" /\ \E v \in Variants : ConstructFromPointer(v, TRUE, <<>>)
  \/ variant = "none" /\ \E attrs \in Sources :
                           OrderedConstructFromPointer(FALSE, attrs, FALSE, <<>>)
  \/ variant = "none" /\ \E faults \in BOOLEAN, garbage \in Sources :
                           OrderedConstructFromPointer(TRUE, <<>>, faults, garbage)
  \/ variant = "none" /\ \E list \in PairLists(Keys, ListTexts) :
                           ConstructFromList(StringAttributeMap, list)
  \/ variant = "none" /\ \E v \in {AttributeMap, OrderedAttributeMap}, list \in Sources :
                           ConstructFromList(v, list)
  \/ variant # "none" /\ \E key \in Keys, value \in AttrValues : SetAttribute(key, value)
  \/ Hash
  \/ Destroy

Spec == Init /\ [][Next]_vars

(***************************************************************************)
(* Properties of the map object.                                           *)
(***************************************************************************)
\* what a map of class v stores for a value passed to SetAttribute
Converted(v, value) ==
  IF v = StringAttributeMap THEN StringAttributeConverter(value)
  ELSE AttributeConverter(value)

\* C3: last write wins in all three maps: the entry count is the number of
\* distinct keys set, each key holds the conversion of the value of the latest
\* SetAttribute for it, and a SetAttribute on a present key leaves the count as
\* it was
LastWriteWins ==
  (variant \in Variants /\ ~fault) =>
    /\ Len(attributes) = Cardinality(DOMAIN written)
    /\ MapKeys(attributes) = DOMAIN written
    /\ \A k \in DOMAIN written :
         /\ Cardinality({i \in 1..Len(attributes) : First(attributes[i]) = k}) = 1
         /\ At(attributes, k) = Converted(variant, written[k])
    /\ (op[1] = "SetAttribute" /\ op[4]) => Len(attributes) = op[5]

\* a key of a two-entry map has been set again, to a value other than the one
\* another key holds
LastWriteWinsWitness ==
  /\ op[1] = "SetAttribute"
  /\ op[4]
  /\ Len(attributes) = 2
  /\ \E k \in DOMAIN written : k # op[2] /\ written[k] # op[3]

\* C4: constructing a map of any class from a null source is no error and
\* yields a map with no entries
NullSourceYieldsEmptyMap ==
  (op[1] = "ConstructFromPointer" /\ op[2]) => (~fault /\ Len(attributes) = 0)

RECURSIVE RefElementSteps(_, _, _)
\* one step per element: the texts of the first n elements of vals
RefElementSteps(T, vals, n) ==
  IF n = 0 THEN <<>>
  ELSE Append(RefElementSteps(T, vals, n - 1), StreamText(T, vals[n]))

\* the steps of one value: one per element for a sequence, else one
RefValueSteps(v, second) ==
  IF v = StringAttributeMap THEN <<second>>
  ELSE IF TypeOf(second) \in VectorTypes
  THEN RefElementSteps(VectorElement(TypeOf(second)), Held(second), Len(Held(second)))
  ELSE IF TypeOf(second) = "kTypeString" THEN <<Held(second)>>
  ELSE IF TypeOf(second) = "kTypeBool" THEN <<StreamText("bool", Held(second))>>
  ELSE IF TypeOf(second) = "kTypeDouble" THEN <<StreamText("double", Held(second))>>
  ELSE <<StreamText("int64_t", Held(second))>>

RECURSIVE RefSteps(_, _, _)
\* the steps of the first n entries: the key, then the steps of the value
RefSteps(v, m, n) ==
  IF n = 0 THEN <<>>
  ELSE RefSteps(v, m, n - 1) \o <<First(m[n])>> \o RefValueSteps(v, Second(m[n]))

\* seed XOR (h + 0x9e3779b9 + (seed << 6) + (seed >> 2)) modulo 2^64
RefMix(seed, h) ==
  IF seed \in Uint64
  THEN Xor64(seed, Add64(Add64(Add64(h, <<185, 121, 55, 158, 0, 0, 0, 0>>),
                               Shl64(seed, 6)), Shr64(seed, 2)))
  ELSE seed

RECURSIVE RefFold(_, _)
\* the left fold of RefMix from seed 0 over the first n steps
RefFold(steps, n) ==
  IF n = 0 THEN <<0, 0, 0, 0, 0, 0, 0, 0>>
  ELSE RefMix(RefFold(steps, n - 1), Fnv1aHash(steps[n]))

\* C9: the map-level hash is the left fold of the seed update from seed 0 over
\* the entries in iteration order, a step for the key and then a step for the
\* value, or a step for each element of a value that is a sequence
MapHashIsLeftFold ==
  hash # <<>> =>
    hash[1] = RefFold(RefSteps(variant, attributes, Len(attributes)),
                      Len(RefSteps(variant, attributes, Len(attributes))))

\* a map with a sequence-valued entry and another entry has been hashed
MapHashIsLeftFoldWitness ==
  /\ hash # <<>>
  /\ variant = AttributeMap
  /\ Len(attributes) = 2
  /\ \E i \in 1..2 : Second(attributes[i]) = <<"kTypeSpanInt", <<1, 2>>>>

\* what SetAttribute(k, v) leaves alone: the entries under other keys stay as
\* they are, none appears, and the count grows by one exactly when k is new
Frame(k) ==
  /\ \A i \in 1..Len(attributes) :
       First(attributes[i]) # k =>
         Cardinality({j \in 1..Len(attributes') : attributes'[j] = attributes[i]}) = 1
  /\ \A j \in 1..Len(attributes') :
       First(attributes'[j]) # k =>
         \E i \in 1..Len(attributes) : attributes[i] = attributes'[j]
  /\ Len(attributes') = Len(attributes) + (IF k \in MapKeys(attributes) THEN 0 ELSE 1)

\* C10: in every map class SetAttribute(k, v) leaves each entry under another
\* key unchanged and changes the entry count by +1 when k was absent and by 0
\* when it was present
SetAttributeFrame ==
  [][\A k \in Keys, v \in AttrValues : SetAttribute(k, v) => Frame(k)]_vars

\* a new key has been set on an OrderedAttributeMap that held two others
SetAttributeFrameWitness ==
  /\ op[1] = "SetAttribute"
  /\ ~op[4]
  /\ variant = OrderedAttributeMap
  /\ Len(attributes) = 3

(***************************************************************************)
(* Calls of the free functions and the converters on their own: call is    *)
(* the function and its arguments, ret what it returned.  The map object   *)
(* plays no part in them.                                                  *)
(***************************************************************************)
mapVars == <<variant, attributes, written, op, fault, hash>>

\* the ways to list the elements of first, each as often as first does
Reorderings(first) ==
  {[i \in 1..Len(first) |-> first[p[i]]] :
     p \in {q \in [1..Len(first) -> 1..Len(first)] :
               \A i, j \in 1..Len(first) : q[i] = q[j] => i = j}}

\* no call is under way
Idle == call = <<"none">>

\* the caller has taken the result
Return ==
  /\ ~Idle
  /\ call' = <<"none">>
  /\ ret' = <<>>
  /\ UNCHANGED mapVars

\* chars of a signed-char build: NUL, '1', 'a', 0x80, 0xff
Chars == {0, 49, 97, -128, -1}

\* the byte strings handed to Fnv1aHash
DataInputs == UNION {[1..n -> Chars] : n \in 0..MaxData}

\* Fnv1aHash(data, length)
CallFnv1aHash(data) ==
  /\ call' = <<"Fnv1aHash", data>>
  /\ ret' = Fnv1aHash(data)
  /\ UNCHANGED mapVars

NextFnv ==
  \/ Idle /\ \E data \in DataInputs : CallFnv1aHash(data)
  \/ Return

SpecFnv == Init /\ [][NextFnv]_vars

\* x * 1099511628211 modulo 2^64, the prime being 2^40 + 2^8 + 0xb3
RefTimesPrime(x) ==
  Add64(<<0, 0, 0, 0, 0, x[1], x[2], x[3]>>,
        Add64(<<0, x[1], x[2], x[3], x[4], x[5], x[6], x[7]>>,
              Add64(Shl64(x, 7),
                    Add64(Shl64(x, 5), Add64(Shl64(x, 4), Add64(Shl64(x, 1), x))))))

\* the accumulator XORed with the byte c, taken in 0..255, then times the prime
RefFnvStep(acc, c) ==
  IF acc \in Uint64
  THEN RefTimesPrime(<<XorByte(acc[1], IF c < 0 THEN c + 256 ELSE c), acc[2], acc[3],
                       acc[4], acc[5], acc[6], acc[7], acc[8]>>)
  ELSE acc

RECURSIVE RefFnv(_, _)
\* reference FNV-1a 64 of the first n bytes, from 14695981039346656037 =
\* 0xcbf29ce484222325
RefFnv(data, n) ==
  IF n = 0 THEN <<37, 35, 34, 132, 228, 156, 242, 203>>
  ELSE RefFnvStep(RefFnv(data, n - 1), data[n])

\* C8: Fnv1aHash is the reference 64-bit FNV-1a: from the offset basis, which
\* is the result for no bytes, each byte in order, as a value in 0..255, is
\* XORed in and the accumulator multiplied by the prime modulo 2^64
Fnv1aIsReference ==
  call[1] = "Fnv1aHash" =>
    /\ ret = RefFnv(call[2], Len(call[2]))
    /\ call[2] = <<>> => ret = <<37, 35, 34, 132, 228, 156, 242, 203>>
    /\ call[2] = <<97>> => ret = <<140, 236, 1, 134, 76, 220, 99, 175>>

\* bytes hashed of which one is above 0x7f
Fnv1aIsReferenceWitness ==
  /\ call[1] = "Fnv1aHash"
  /\ Len(call[2]) = MaxData
  /\ \E i \in 1..Len(call[2]) : call[2][i] < 0
  /\ ret \in Uint64

\* "", "1", "a", "b", "ab"
ArgTexts == {<<>>, <<49>>, <<97>>, <<98>>, <<97, 98>>}

ArgLists == UNION {[1..n -> ArgTexts] : n \in 0..MaxArgs}

RECURSIVE GetHashEach(_, _)
\* size_t seed = 0UL; GetHash(seed, arg) for each of the first n of args
GetHashEach(args, n) ==
  IF n = 0 THEN Word(0) ELSE GetHash(GetHashEach(args, n - 1), args[n])

\* successive GetHash(seed, arg) calls on one seed
CallGetHash(args) ==
  /\ call' = <<"GetHash", args>>
  /\ ret' = GetHashEach(args, Len(args))
  /\ UNCHANGED mapVars

NextFold ==
  \/ Idle /\ \E args \in ArgLists : CallGetHash(args)
  \/ Return

SpecFold == Init /\ [][NextFold]_vars

Elements(U) ==
  CASE U = "bool" -> {TRUE, FALSE}
    [] U = "int32_t" -> {1, 2}
    [] U = "uint32_t" -> {2, 30}
    [] U = "int64_t" -> {-12, 5}
    [] U = "uint64_t" -> {7, 100}
    [] U = "double" -> {3, -4}
    [] U = "uint8_t" -> {65, 200}
    [] U = "string_view" -> {<<>>, <<97>>}
    [] U = "std::string" -> {<<49>>, <<97, 98>>}
    [] U = "const char *" -> {<<49>>, <<98>>}

\* the borrowed values handed to a converter
ConverterInputs ==
  UNION {{<<k, e>> : e \in Elements(k)} : k \in ScalarKinds \cup TextKinds}
    \cup UNION {{<<k, s>> : s \in UNION {[1..n -> Elements(ElementKind(k))] : n \in 0..MaxSpan}} :
                  k \in SpanKinds}

\* nostd::visit(AttributeConverter(), value)
CallAttributeConverter(value) ==
  /\ call' = <<"AttributeConverter", value>>
  /\ ret' = AttributeConverter(value)
  /\ UNCHANGED mapVars

\* nostd::visit(StringAttributeConverter(), value)
CallStringAttributeConverter(value) ==
  /\ call' = <<"StringAttributeConverter", value>>
  /\ ret' = StringAttributeConverter(value)
  /\ UNCHANGED mapVars

NextConvert ==
  \/ Idle /\ \E value \in ConverterInputs : CallAttributeConverter(value)
  \/ Idle /\ \E value \in ConverterInputs : CallStringAttributeConverter(value)
  \/ Return

SpecConvert == Init /\ [][NextConvert]_vars

RECURSIVE RefRendering(_, _, _)
\* the rendering of vals from position i on: each element's own rendering by
\* the converter and a space
RefRendering(U, vals, i) ==
  IF i > Len(vals) THEN <<>>
  ELSE StringOfScalar(U, vals[i]) \o <<32>> \o RefRendering(U, vals, i + 1)

\* C5: StringAttributeConverter renders a sequence as its elements' own
\* renderings in order, each followed by one space: [1, 2] as "1 2 ", a
\* boolean element as "true" or "false", no elements as the empty text
SequenceRendering ==
  (call[1] = "StringAttributeConverter" /\ Kind(call[2]) \in SpanKinds) =>
    /\ ret = RefRendering(ElementKind(Kind(call[2])), Val(call[2]), 1)
    /\ Val(call[2]) = <<>> => ret = <<>>
    /\ call[2] = <<"span<const int32_t>", <<1, 2>>>> => ret = <<49, 32, 50, 32>>
    /\ call[2] = <<"span<const bool>", <<TRUE>>>> => ret = <<116, 114, 117, 101, 32>>
    /\ call[2] = <<"span<const bool>", <<FALSE>>>>
         => ret = <<102, 97, 108, 115, 101, 32>>

\* [1, 2] has been rendered
SequenceRenderingWitness ==
  /\ call = <<"StringAttributeConverter", <<"span<const int32_t>", <<1, 2>>>>>>
  /\ ret = <<49, 32, 50, 32>>

\* the owned alternative that matches a borrowed sequence kind
MatchingType(kind) ==
  CASE kind = "span<const uint8_t>" -> "kTypeSpanByte"
    [] kind = "span<const bool>" -> "kTypeSpanBool"
    [] kind = "span<const int32_t>" -> "kTypeSpanInt"
    [] kind = "span<const uint32_t>" -> "kTypeSpanUInt"
    [] kind = "span<const int64_t>" -> "kTypeSpanInt64"
    [] kind = "span<const uint64_t>" -> "kTypeSpanUInt64"
    [] kind = "span<const double>" -> "kTypeSpanDouble"
    [] kind = "span<const string_view>" -> "kTypeSpanString"

\* C6: AttributeConverter turns a borrowed sequence of N elements into the
\* owned sequence of the matching element kind with N elements, the i-th equal
\* to the i-th of the source
SequenceFidelity ==
  (call[1] = "AttributeConverter" /\ Kind(call[2]) \in SpanKinds) =>
    /\ TypeOf(ret) = MatchingType(Kind(call[2]))
    /\ Len(Held(ret)) = Len(Val(call[2]))
    /\ \A i \in 1..Len(Val(call[2])) : Held(ret)[i] = Val(call[2])[i]

\* a sequence of MaxSpan different elements has been converted
SequenceFidelityWitness ==
  /\ call[1] = "AttributeConverter"
  /\ Kind(call[2]) = "span<const string_view>"
  /\ Len(Val(call[2])) = MaxSpan
  /\ Val(call[2])[1] # Val(call[2])[MaxSpan]

\* 1, "1", [1, 2]
OrderedValues ==
  {<<"int32_t", 1>>, <<"string_view", <<49>>>>, <<"span<const int32_t>", <<1, 2>>>>}

\* the ways to list a set of at most MaxPairs pairs
Insertions ==
  {s \in PairLists(Keys, OrderedValues) : \A i, j \in 1..Len(s) : s[i] = s[j] => i = j}

\* the OrderedAttributeMap left by SetAttribute for each of pairs in turn
OrderedFrom(pairs) ==
  CHOOSE m \in Populate(OrderedAttributeMap, pairs, Len(pairs)) : TRUE

\* two OrderedAttributeMaps take the same pairs, one in the order of first
\* and one in the order of second, and each is hashed
CallHashOrdered(first, second) ==
  /\ call' = <<"HashOrdered", first, second>>
  /\ ret' = <<GetHashForAttributeMap(OrderedAttributeMap, OrderedFrom(first)),
              GetHashForAttributeMap(OrderedAttributeMap, OrderedFrom(second))>>
  /\ UNCHANGED mapVars

NextOrdered ==
  \/ Idle /\ \E first \in Insertions : \E second \in Reorderings(first) :
               CallHashOrdered(first, second)
  \/ Return

SpecOrdered == Init /\ [][NextOrdered]_vars

\* C2 as stated: for a fixed set of pairs the hash of the OrderedAttributeMap
\* populated by SetAttribute over them is the same for every insertion order
OrderedDeterminism == call[1] = "HashOrdered" => ret[1] = ret[2]

\* no two of the pairs have the same key
DistinctKeys(pairs) ==
  \A i, j \in 1..Len(pairs) : Key(pairs[i]) = Key(pairs[j]) => i = j

\* C2: for a fixed set of pairs with pairwise distinct keys the hash of the
\* OrderedAttributeMap populated by SetAttribute over them is the same for
\* every insertion order
OrderedDeterminismDistinctKeys ==
  (call[1] = "HashOrdered" /\ DistinctKeys(call[2])) => ret[1] = ret[2]

\* pairs with different keys have been inserted greater key first and lesser
\* key first
OrderedDeterminismWitness ==
  /\ call[1] = "HashOrdered"
  /\ Len(call[2]) = MaxPairs
  /\ DistinctKeys(call[2])
  /\ call[2] # call[3]
  /\ StrLess(Key(call[2][2]), Key(call[2][1]))

\* the key sets the predicate of the filtered hash accepts
AcceptSets == {Keys, {<<97>>}, {<<98>>, <<97, 98>>}, {}}

RECURSIVE Accepted(_, _, _)
\* the pairs among the first n of attributes whose key the predicate accepts
Accepted(attributes_, accept, n) ==
  IF n = 0 THEN <<>>
  ELSE Accepted(attributes_, accept, n - 1)
       \o (IF Key(attributes_[n]) \in accept THEN <<attributes_[n]>> ELSE <<>>)

\* the filtered hash of a source, and the map-level hash of a map of the
\* build's class freshly built from the accepted pairs, in their order
CallGetHashFiltered(v, attrs, accept, fresh) ==
  /\ call' = <<"GetHashForAttributeMap", v, attrs, accept>>
  /\ ret' = <<GetHashForAttributeMapFiltered(attrs, accept), fresh,
              GetHashForAttributeMap(v, fresh)>>
  /\ UNCHANGED mapVars

\* the maps of class v freshly built from the pairs of attrs that accept takes
FreshMaps(v, attrs, accept) ==
  Populate(v, Accepted(attrs, accept, Len(attrs)),
           Len(Accepted(attrs, accept, Len(attrs))))

NextFiltered ==
  \/ Idle /\ \E v \in Variants, attrs \in Sources, accept \in AcceptSets :
               \E fresh \in FreshMaps(v, attrs, accept) :
                 CallGetHashFiltered(v, attrs, accept, fresh)
  \/ Return

SpecFiltered == Init /\ [][NextFiltered]_vars

\* C1: the filtered hash of a source equals the map-level hash of a map
\* freshly built from the accepted pairs in their order
FilteredHashEquivalence == call[1] = "GetHashForAttributeMap" => ret[1] = ret[3]

====
